---- MODULE Spec2Model ----
(***************************************************************************)
(* State-machine model of the auto-parallel Partitioner                    *)
(* (python/paddle/distributed/auto_parallel/partitioner.py).               *)
(*                                                                         *)
(* A Partitioner converts an annotated serial program into a distributed   *)
(* program: transpile_forward partitions the variables and dispatches each *)
(* serial operator to a distributed implementation, apply_backward extends *)
(* the distributed program with gradient operators, apply_optimize appends *)
(* the optimizer step.  Calls are synchronous; one call runs at a time and *)
(* pc records the position inside the running call.                        *)
(***************************************************************************)
EXTENDS Integers, Sequences, FiniteSets, TLC

\* Number of public calls made in one behaviour.
MaxCalls == 3

\* Two Partitioner objects constructed on the same DistributedContext.
Instances == {"A", "B"}

\* partitioner.py:36
varname_not_in_block == {"lod_tensor_blocking_queue_0"}

\* partitioner.py:118
dist_varname_suffix == ""

(***************************************************************************)
(* Distribution attributes, variables and operators of a program.          *)
(***************************************************************************)
\* The attribute the annotation pass made for a tensor of the serial program;
\* owner is the tensor the attribute object belongs to (_owner_tensor): "src"
\* for a tensor of the serial program, "dst" for one of a distributed program.
TensorAttr(mesh, dims_mapping) ==
    [isNone |-> FALSE, mesh |-> mesh, dims_mapping |-> dims_mapping, owner |-> "src"]

NoneTensorAttr ==
    [isNone |-> TRUE, mesh |-> <<>>, dims_mapping |-> <<>>, owner |-> "none"]

OpAttr(mesh, impl_idx) == [isNone |-> FALSE, mesh |-> mesh, impl_idx |-> impl_idx]

NoneOpAttr == [isNone |-> TRUE, mesh |-> <<>>, impl_idx |-> -1]

Variable(kind, shape, persistable, stop_gradient) ==
    [kind |-> kind, shape |-> shape, persistable |-> persistable,
     stop_gradient |-> stop_gradient]

Operator(type, inputs, outputs) ==
    [type |-> type, inputs |-> inputs, outputs |-> outputs]

EmptyFn == [n \in {} |-> n]

(***************************************************************************)
(* The distributed-operator registry: "matmul" has two implementations,    *)
(* "default" is the replicate fallback, every other type is unregistered.  *)
(***************************************************************************)
DistributedOperatorImpl(fwd, bwd) ==
    [forward_implemented |-> fwd, backward_implemented |-> bwd]

DistributedOperators ==
    [matmul |-> <<DistributedOperatorImpl(TRUE, FALSE),
                  DistributedOperatorImpl(FALSE, TRUE)>>,
     default |-> <<DistributedOperatorImpl(TRUE, TRUE)>>]

\* None for an unregistered type, else the container of implementations.
get_distributed_operator(type) ==
    IF type \in DOMAIN DistributedOperators
    THEN [isNone |-> FALSE, impls |-> DistributedOperators[type]]
    ELSE [isNone |-> TRUE, impls |-> <<>>]

(***************************************************************************)
(* The serial programs given to the Partitioner.  The base program is      *)
(*     y = matmul(x, w); loss = mean(y)                                     *)
(* with parameter w of shape [256, 64] split on mesh axis 0 of a [4, 2]    *)
(* mesh.  A configuration changes one aspect of it: the shape and dims     *)
(* mapping of one variable, the implementation index of the operators, a   *)
(* missing annotation, a py_reader feeding x, the shape of the loss, the   *)
(* startup program, or the sharding strategy of the Partitioner objects.   *)
(***************************************************************************)
ProcessMesh == <<4, 2>>

Shapes == {<<256, 64>>, <<255, 64>>, <<-1, 64>>, <<255>>}

DimsMappings == {<<0, -1>>, <<-1, -1>>, <<0, 1>>, <<1, 0>>, <<0>>}

ImplIdxs == {-1, 0, 1}

\* The loss is a scalar of shape [1]; or a vector of shape [4] split on mesh
\* axis 0, whose shard has shape [1]; or a replicated matrix of shape [8, 1].
LossKinds == {"scalar", "split", "matrix"}

\* The reader variable of a program with a py_reader: "plain" stops the
\* gradient and is annotated with an empty dims mapping; "py_reader" is as
\* the framework creates it (persistable, stop_gradient left False) and is
\* annotated with a dims mapping of one entry, which no shape of a reader
\* matches.
ReaderVars == {"plain", "py_reader"}

\* The startup program initializes the parameter w with one operator; or that
\* operator has two outputs; or the program also initializes lr, a variable
\* that is not a Parameter.
StartupKinds == {"param", "two_outputs", "not_param"}

\* The objects constructed with a dist_strategy whose sharding flag is set.
Shardings == {{}, {"A"}, {"A", "B"}}

BaseConfig ==
    [tv |-> "w", shape |-> <<256, 64>>, map |-> <<0, -1>>, idx |-> 0,
     miss |-> "none", rd |-> FALSE, rdvar |-> "plain", loss |-> "scalar",
     st |-> "param", sharding |-> {}]

AllConfigs ==
    [tv : {"w", "y"}, shape : Shapes, map : DimsMappings, idx : ImplIdxs,
     miss : {"none", "op", "var"}, rd : BOOLEAN, rdvar : ReaderVars,
     loss : LossKinds, st : StartupKinds, sharding : Shardings]

Bit(b) == IF b THEN 1 ELSE 0

Deviations(c) ==
      Bit(<<c.tv, c.shape, c.map>> # <<BaseConfig.tv, BaseConfig.shape, BaseConfig.map>>)
    + Bit(c.idx # BaseConfig.idx) + Bit(c.miss # BaseConfig.miss)
    + Bit(c.rd # BaseConfig.rd) + Bit(c.loss # BaseConfig.loss)
    + Bit(c.st # BaseConfig.st)
    + Bit(c.sharding # BaseConfig.sharding)

Configs ==
    {c \in AllConfigs :
        Deviations(c) <= 1 /\ (~c.rd => c.rdvar = BaseConfig.rdvar)}

SerialShape(c, n) ==
    IF n = c.tv THEN c.shape
    ELSE CASE n = "x" -> <<-1, 256>>
           [] n = "w" -> <<256, 64>>
           [] n = "y" -> <<-1, 64>>
           [] n = "loss" -> (CASE c.loss = "scalar" -> <<1>>
                               [] c.loss = "split" -> <<4>>
                               [] c.loss = "matrix" -> <<8, 1>>)
           [] OTHER -> <<>>

SerialDimsMapping(c, n) ==
    IF n = c.tv THEN c.map
    ELSE CASE n = "x" -> <<0, -1>>
           [] n = "w" -> <<0, -1>>
           [] n = "y" -> <<0, -1>>
           [] n = "loss" -> (CASE c.loss = "scalar" -> <<-1>>
                               [] c.loss = "split" -> <<0>>
                               [] c.loss = "matrix" -> <<-1, -1>>)
           [] n = "reader" /\ c.rdvar = "py_reader" -> <<0>>
           [] OTHER -> <<>>

SerialVarNames(c) ==
    {"x", "w", "y", "loss"} \cup (IF c.rd THEN {"reader"} ELSE {})

SerialVar(c, n) ==
    CASE n = "reader" -> Variable("READER", <<>>, TRUE, c.rdvar = "plain")
      [] n = "x" -> Variable("VAR", SerialShape(c, n), FALSE, TRUE)
      [] n = "w" -> Variable("PARAM", SerialShape(c, n), TRUE, FALSE)
      [] OTHER -> Variable("VAR", SerialShape(c, n), FALSE, FALSE)

ReaderOps ==
    <<Operator("create_py_reader", <<"lod_tensor_blocking_queue_0">>, <<"reader">>),
      Operator("read", <<"reader">>, <<"x">>)>>

ComputeOps ==
    <<Operator("matmul", <<"x", "w">>, <<"y">>),
      Operator("mean", <<"y">>, <<"loss">>)>>

SerialOps(c) == IF c.rd THEN ReaderOps \o ComputeOps ELSE ComputeOps

StartupVars(c) ==
    <<[name |-> "w", kind |-> "PARAM"]>>
    \o (IF c.st = "not_param" THEN <<[name |-> "lr", kind |-> "VAR"]>> ELSE <<>>)

StartupOps(c) ==
    CASE c.st = "param" -> <<Operator("uniform_random", <<>>, <<"w">>)>>
      [] c.st = "two_outputs" -> <<Operator("uniform_random", <<>>, <<"w", "x">>)>>
      [] c.st = "not_param" -> <<Operator("uniform_random", <<>>, <<"w">>),
                                 Operator("fill_constant", <<>>, <<"lr">>)>>

SerialProgram(c) ==
    [vars |-> [n \in SerialVarNames(c) |-> SerialVar(c, n)],
     ops |-> SerialOps(c),
     startup_vars |-> StartupVars(c),
     startup_ops |-> StartupOps(c),
     tensor_attr |->
        [n \in SerialVarNames(c) |->
            IF c.miss = "var" /\ n = "y" THEN NoneTensorAttr
            ELSE TensorAttr(ProcessMesh, SerialDimsMapping(c, n))],
     op_attr |->
        [k \in 1..Len(SerialOps(c)) |->
            IF c.miss = "op" /\ SerialOps(c)[k].type = "mean" THEN NoneOpAttr
            ELSE OpAttr(ProcessMesh, c.idx)]]

(***************************************************************************)
(* Shard shape of a variable (_get_dist_shape).                            *)
(***************************************************************************)
ShapeResult(fault, shape) == [fault |-> fault, shape |-> shape]

\* Faulty variant: the assertion on the two lengths is left out.
shape_mapping_match_unchecked(var_shape, mapping) == TRUE

\* partitioner.py:707 -- the assertion on the two lengths
shape_mapping_match(var_shape, mapping) == Len(var_shape) = Len(mapping)

\* partitioner.py:713 -- a wildcard or an undistributed dimension
keeps_size(size, m) == size = -1 \/ m = -1

\* Faulty variant: the assertion on even division is left out.
is_even_partition_unchecked(size, extent) == TRUE

\* partitioner.py:716 -- the assertion on even division
is_even_partition(size, extent) == size % extent = 0

\* Faulty variant: the global size is multiplied by the extent.
local_size_multiplied(size, extent) == size * extent

\* partitioner.py:719
local_size(size, extent) == size \div extent

\* Faulty variant: the extent is always read from the first mesh axis.
mesh_extent_first_axis(mesh, m) == mesh[1]

\* partitioner.py:716, 719 -- mesh[mapping[idx]], axes counted from 0
mesh_extent(mesh, m) == mesh[m + 1]

RECURSIVE dist_shape_loop(_, _, _, _, _)
dist_shape_loop(var_shape, mapping, mesh, idx, new_shape) ==
    IF idx > Len(var_shape) THEN ShapeResult("none", new_shape)
    ELSE IF idx > Len(mapping) THEN ShapeResult("IndexError", <<>>)
    ELSE IF keeps_size(var_shape[idx], mapping[idx])
    THEN dist_shape_loop(var_shape, mapping, mesh, idx + 1,
                         Append(new_shape, var_shape[idx]))
    ELSE IF (mapping[idx] + 1) \notin DOMAIN mesh THEN ShapeResult("IndexError", <<>>)
    ELSE IF ~is_even_partition(var_shape[idx], mesh_extent(mesh, mapping[idx]))
    THEN ShapeResult("UnevenPartition", <<>>)
    ELSE dist_shape_loop(var_shape, mapping, mesh, idx + 1,
                         Append(new_shape,
                                local_size(var_shape[idx], mesh_extent(mesh, mapping[idx]))))

get_dist_shape(var, dist_attr) ==
    IF ~shape_mapping_match(var.shape, dist_attr.dims_mapping)
    THEN ShapeResult("ShapeMismatch", <<>>)
    ELSE dist_shape_loop(var.shape, dist_attr.dims_mapping, dist_attr.mesh, 1, <<>>)

(***************************************************************************)
(* State.                                                                  *)
(***************************************************************************)
VARIABLES
    serial,     \* the annotated serial program and its distribution attributes
    sharding,   \* dist_strategy.sharding of each Partitioner
    mapping,    \* _serial2dist_varname_mapping of each Partitioner
    helper,     \* the DistOpHelper of the shared DistributedContext
    progs,      \* the programs created by transpile_forward, in creation order
    store,      \* attributes the Partitioner set in the DistributedContext
    pc,         \* position inside the running call, "idle" between calls
    call,       \* frame of the running call
    results,    \* what each finished call returned or raised, in call order
    events      \* invocations of the collaborators and backward dispatches

vars == <<serial, sharding, mapping, helper, progs, store, pc, call, results, events>>

NoCall ==
    [inst |-> "none", api |-> "none", prog |-> 0, op |-> 0, k |-> 0,
     temp_varname_map |-> EmptyFn, param2shape |-> EmptyFn,
     loss |-> "none", params_grads |-> <<>>, forward_ops |-> {},
     parameter_list |-> <<>>, no_grad_set |-> <<>>, args |-> <<>>,
     entry |-> EmptyFn]

EmptyProgram ==
    [main_vars |-> EmptyFn, main_ops |-> <<>>,
     startup_vars |-> EmptyFn, startup_ops |-> <<>>]

NoHelper == [dst_main |-> 0, dst_startup |-> 0, varname_mapping |-> "none",
             rank_id |-> "none", gradopidx2opidx |-> EmptyFn]

\* Partitioner.__init__ for both objects
Init ==
    \E c \in Configs :
        /\ serial = SerialProgram(c)
        /\ sharding = [i \in Instances |-> i \in c.sharding]
        /\ mapping = [i \in Instances |-> EmptyFn]
        /\ helper = NoHelper
        /\ progs = <<>>
        /\ store = {}
        /\ pc = "idle"
        /\ call = NoCall
        /\ results = <<>>
        /\ events = <<>>

\* One finished call: the object and method, the renaming table of the object
\* when the call began, the fault raised or "ok", the distributed program
\* returned or worked on, and the value returned.
Result(inst, api, entry, status, prog, value) ==
    [inst |-> inst, api |-> api, entry |-> entry,
     status |-> status, prog |-> prog, value |-> value]

\* The running call raises the fault `status`, or returns (`status` = "ok")
\* the program `prog`.
Finish(status, prog) ==
    /\ results' = Append(results,
            Result(call.inst, call.api, call.entry, status, prog, <<>>))
    /\ pc' = "idle"
    /\ call' = NoCall

(***************************************************************************)
(* Partitioning of one variable.                                           *)
(***************************************************************************)
\* Outcome of partitioning one variable: the fault raised or "none", the
\* variable created, the attribute set for it, and the attribute the store
\* holds for the source variable afterwards.
PartitionResult(fault, var, attr, src_attr) ==
    [fault |-> fault, var |-> var, attr |-> attr, src_attr |-> src_attr]

NoVariable == Variable("none", <<>>, FALSE, FALSE)

\* Faulty variant: the attribute object of the source variable is used itself.
copy_dist_attr_shared(src_attr) == [attr |-> src_attr, shared |-> TRUE]

\* partitioner.py:751-752, 778-779 -- copy.deepcopy of the attribute of the
\* source variable: an object with the same content, not shared with the source
copy_dist_attr(src_attr) == [attr |-> src_attr, shared |-> FALSE]

\* partitioner.py:754, 781 -- dist_attr._owner_tensor = <the new variable>: the
\* attribute of the new variable, and what the attribute object of the source
\* variable holds afterwards
set_owner_tensor(dist_attr) ==
    [attr |-> [dist_attr.attr EXCEPT !.owner = "dst"],
     src_attr |-> IF dist_attr.shared THEN [dist_attr.attr EXCEPT !.owner = "dst"]
                  ELSE dist_attr.attr]

\* _partition_parameter: a Parameter is persistable; the attribute is a copy
partition_parameter(src_var, src_attr, dst_shape) ==
    IF src_attr.isNone
    THEN PartitionResult("AssertionError", NoVariable, src_attr, src_attr)
    ELSE LET dist_attr == set_owner_tensor(copy_dist_attr(src_attr))
         IN  PartitionResult("none",
                             Variable(src_var.kind, dst_shape, TRUE,
                                      src_var.stop_gradient),
                             dist_attr.attr, dist_attr.src_attr)

\* _partition_intermediate_var
partition_intermediate_var(src_var, src_attr, dst_shape) ==
    IF src_attr.isNone
    THEN PartitionResult("AssertionError", NoVariable, src_attr, src_attr)
    ELSE LET dist_attr == set_owner_tensor(copy_dist_attr(src_attr))
         IN  PartitionResult("none",
                             Variable(src_var.kind, dst_shape, src_var.persistable,
                                      src_var.stop_gradient),
                             dist_attr.attr, dist_attr.src_attr)

\* _partition_var: a READER is recreated without a shape and without an
\* attribute; any other variable gets its shard shape first.
partition_var(src_var, src_attr) ==
    IF src_var.kind = "READER"
    THEN PartitionResult("none", Variable(src_var.kind, <<>>, TRUE, TRUE),
                         NoneTensorAttr, src_attr)
    ELSE IF src_attr.isNone
    THEN PartitionResult("AttributeError", NoVariable, src_attr, src_attr)
    ELSE LET target == get_dist_shape(src_var, src_attr)
         IN  IF target.fault # "none"
             THEN PartitionResult(target.fault, NoVariable, src_attr, src_attr)
             ELSE IF src_var.kind = "PARAM"
             THEN partition_parameter(src_var, src_attr, target.shape)
             ELSE partition_intermediate_var(src_var, src_attr, target.shape)

\* set_tensor_distributed_attr_for_program(var, dist_attr)
TensorWrite(prog, block, name, attr) ==
    [kind |-> "tensor", prog |-> prog, block |-> block, name |-> name, attr |-> attr]

\* set_op_distributed_attr_for_program(op, op_attr)
OpWrite(prog, block, idx, attr) ==
    [kind |-> "op", prog |-> prog, block |-> block, name |-> idx, attr |-> attr]

(***************************************************************************)
(* transpile_forward                                                       *)
(***************************************************************************)
\* Faulty variant: only the operators are examined.
is_valid_annotated_program_ops_only(program) ==
    \A k \in DOMAIN program.op_attr : ~program.op_attr[k].isNone

\* _is_valid_annotated_program
is_valid_annotated_program(program) ==
    LET all_ops_annotated ==
            \A k \in DOMAIN program.op_attr : ~program.op_attr[k].isNone
        all_vars_annotated ==
            \A n \in DOMAIN program.vars : ~program.tensor_attr[n].isNone
    IN  all_ops_annotated /\ all_vars_annotated

\* transpile_forward_impl up to the creation of the two destination programs
TranspileForward(i) ==
    /\ pc = "idle"
    /\ Len(results) < MaxCalls
    /\ IF ~is_valid_annotated_program(serial)
       THEN /\ results' = Append(results,
                    Result(i, "transpile_forward", mapping[i],
                           "IncompleteAnnotation", 0, <<>>))
            /\ UNCHANGED <<progs, pc, call>>
       ELSE /\ progs' = Append(progs, EmptyProgram)
            /\ call' = [NoCall EXCEPT !.inst = i, !.api = "transpile_forward",
                                      !.prog = Len(progs) + 1, !.k = 1,
                                      !.entry = mapping[i]]
            /\ pc' = "startup_var"
            /\ UNCHANGED results
    /\ UNCHANGED <<serial, sharding, mapping, helper, store, events>>

\* the loop over serial_startup_program.list_vars()
StartupVar ==
    /\ pc = "startup_var"
    /\ IF call.k > Len(serial.startup_vars)
       THEN /\ pc' = "startup_op"
            /\ call' = [call EXCEPT !.k = 1]
            /\ UNCHANGED <<serial, progs, store, results>>
       ELSE LET var == serial.startup_vars[call.k]
                new_name == var.name \o dist_varname_suffix
            IN  IF var.kind # "PARAM"
                THEN /\ call' = [call EXCEPT !.k = call.k + 1]
                     /\ UNCHANGED <<serial, progs, store, results, pc>>
                ELSE IF var.name \notin DOMAIN serial.vars
                THEN Finish("ValueError", 0) /\ UNCHANGED <<serial, progs, store>>
                ELSE LET serial_main_var == serial.vars[var.name]
                         dist_attr == serial.tensor_attr[var.name]
                         target == get_dist_shape(serial_main_var, dist_attr)
                         r == partition_parameter(serial_main_var, dist_attr, target.shape)
                     IN  IF target.fault # "none"
                         THEN Finish(target.fault, 0)
                              /\ UNCHANGED <<serial, progs, store>>
                         ELSE /\ progs' = [progs EXCEPT ![call.prog].startup_vars =
                                              (new_name :> r.var) @@ @]
                              /\ serial' = [serial EXCEPT
                                    !.tensor_attr[var.name] = r.src_attr]
                              /\ store' = store \cup
                                    {TensorWrite(call.prog, "startup", new_name, r.attr)}
                              /\ call' = [call EXCEPT
                                    !.k = call.k + 1,
                                    !.temp_varname_map = (var.name :> new_name) @@ @,
                                    !.param2shape = (new_name :> target.shape) @@ @]
                              /\ UNCHANGED <<results, pc>>
    /\ UNCHANGED <<sharding, mapping, helper, events>>

\* Faulty variant: the initializer is marked as replicated.
initializer_dist_attr_replicated(output_var_attr) ==
    [isNone |-> FALSE, mesh |-> output_var_attr.mesh,
     output_dims_mapping |-> [d \in DOMAIN output_var_attr.dims_mapping |-> -1],
     input_dims_mapping |-> [d \in DOMAIN output_var_attr.dims_mapping |-> -1]]

\* partitioner.py:351-357 -- the attribute made for the copied initializer
\* from the attribute of its output variable
initializer_dist_attr(output_var_attr) ==
    [isNone |-> FALSE, mesh |-> output_var_attr.mesh,
     output_dims_mapping |-> output_var_attr.dims_mapping,
     input_dims_mapping |-> output_var_attr.dims_mapping]

\* the loop over serial_startup_program.global_block().ops
StartupOp ==
    /\ pc = "startup_op"
    /\ IF call.k > Len(serial.startup_ops)
       THEN /\ pc' = "helper"
            /\ UNCHANGED <<progs, store, results, call>>
       ELSE LET op == serial.startup_ops[call.k]
                output_vars == op.outputs
            IN  IF Len(output_vars) # 1
                THEN Finish("AssertionError", 0) /\ UNCHANGED <<progs, store>>
                ELSE IF output_vars[1] \notin DOMAIN call.temp_varname_map
                THEN Finish("KeyError", 0) /\ UNCHANGED <<progs, store>>
                ELSE IF call.temp_varname_map[output_vars[1]] \notin DOMAIN call.param2shape
                THEN Finish("AssertionError", 0) /\ UNCHANGED <<progs, store>>
                ELSE IF output_vars[1] \notin DOMAIN progs[call.prog].startup_vars
                THEN Finish("ValueError", 0) /\ UNCHANGED <<progs, store>>
                ELSE LET new_name == call.temp_varname_map[output_vars[1]]
                         new_op == [type |-> op.type, inputs |-> op.inputs,
                                    outputs |-> <<new_name>>,
                                    shape |-> call.param2shape[new_name]]
                         output_var_attr ==
                            CHOOSE w \in store :
                                /\ w.kind = "tensor" /\ w.prog = call.prog
                                /\ w.block = "startup" /\ w.name = output_vars[1]
                         op_attr == initializer_dist_attr(output_var_attr.attr)
                     IN  /\ progs' = [progs EXCEPT ![call.prog].startup_ops =
                                          Append(@, new_op)]
                         /\ store' = store \cup
                                {OpWrite(call.prog, "startup",
                                         Len(progs[call.prog].startup_ops) + 1, op_attr)}
                         /\ call' = [call EXCEPT !.k = call.k + 1]
                         /\ UNCHANGED <<results, pc>>
    /\ UNCHANGED <<serial, sharding, mapping, helper, events>>

\* dist_op_helper.set_dst_main_program / set_dst_startup_program /
\* set_varname_mapping / set_rank_id
InitHelper ==
    /\ pc = "helper"
    /\ helper' = [helper EXCEPT !.dst_main = call.prog, !.dst_startup = call.prog,
                                !.varname_mapping = call.inst, !.rank_id = call.inst]
    /\ IF Len(serial.ops) = 0
       THEN pc' = "sharding" /\ UNCHANGED call
       ELSE pc' = "input" /\ call' = [call EXCEPT !.op = 1, !.k = 1]
    /\ UNCHANGED <<serial, sharding, mapping, progs, store, results, events>>

\* Faulty variant: no referenced name is partitioned.
needs_partition_never(table, name) == FALSE

\* Faulty variant: every referenced name is partitioned again.
needs_partition_always(table, name) == TRUE

\* partitioner.py:373, 388 -- only a name not yet renamed is partitioned
needs_partition(table, name) == name \notin DOMAIN table

\* Faulty variant: the table is replaced by one holding the new entry only.
record_mapping_fresh(table, name, new_varname) == [n \in {name} |-> new_varname]

\* partitioner.py:383, 393 -- self._serial2dist_varname_mapping[name] = new_varname
record_mapping(table, name, new_varname) ==
    [n \in DOMAIN table \cup {name} |-> IF n = name THEN new_varname ELSE table[n]]

\* partitioner.py:381 -- a name missing from the block must be on the allow-list
is_block_external(name) == name \in varname_not_in_block

\* Faulty variant: the attribute is set but the variable is not added to the
\* block.
CreateMainVar_attr_only(src_varname, new_varname, r) ==
    /\ progs' = progs
    /\ serial' = [serial EXCEPT !.tensor_attr[src_varname] = r.src_attr]
    /\ store' = IF r.attr.isNone THEN store
                ELSE store \cup {TensorWrite(call.prog, "main", new_varname, r.attr)}

\* partitioner.py:735-758, 763-784, 795-799 -- creation of the destination
\* variable new_varname in the main block of the program under construction,
\* with its attribute (none for a READER); src_varname is the variable of the
\* serial program it is made from
CreateMainVar(src_varname, new_varname, r) ==
    /\ progs' = [progs EXCEPT ![call.prog].main_vars = (new_varname :> r.var) @@ @]
    /\ serial' = [serial EXCEPT !.tensor_attr[src_varname] = r.src_attr]
    /\ store' = IF r.attr.isNone THEN store
                ELSE store \cup {TensorWrite(call.prog, "main", new_varname, r.attr)}

\* partitioner.py:372-384 -- one input name of the current operator
PartitionInput ==
    /\ pc = "input"
    /\ LET op == serial.ops[call.op]
       IN  IF call.k > Len(op.inputs)
           THEN /\ pc' = "output"
                /\ call' = [call EXCEPT !.k = 1]
                /\ UNCHANGED <<serial, mapping, progs, store, results>>
           ELSE LET serial_input_varname == op.inputs[call.k]
                    new_varname == serial_input_varname \o dist_varname_suffix
                IN  IF ~needs_partition(mapping[call.inst], serial_input_varname)
                    THEN /\ call' = [call EXCEPT !.k = call.k + 1]
                         /\ UNCHANGED <<serial, mapping, progs, store, results, pc>>
                    ELSE IF serial_input_varname \in DOMAIN serial.vars
                    THEN LET r == partition_var(serial.vars[serial_input_varname],
                                                serial.tensor_attr[serial_input_varname])
                         IN  IF r.fault # "none"
                             THEN Finish(r.fault, 0)
                                  /\ UNCHANGED <<serial, mapping, progs, store>>
                             ELSE /\ CreateMainVar(serial_input_varname, new_varname, r)
                                  /\ mapping' = [mapping EXCEPT ![call.inst] =
                                        record_mapping(@, serial_input_varname, new_varname)]
                                  /\ call' = [call EXCEPT !.k = call.k + 1]
                                  /\ UNCHANGED <<results, pc>>
                    ELSE IF ~is_block_external(serial_input_varname)
                    THEN Finish("AssertionError", 0)
                         /\ UNCHANGED <<serial, mapping, progs, store>>
                    ELSE /\ mapping' = [mapping EXCEPT ![call.inst] =
                              record_mapping(@, serial_input_varname, new_varname)]
                         /\ call' = [call EXCEPT !.k = call.k + 1]
                         /\ UNCHANGED <<serial, progs, store, results, pc>>
    /\ UNCHANGED <<sharding, helper, events>>

\* partitioner.py:387-394 -- one output name of the current operator
PartitionOutput ==
    /\ pc = "output"
    /\ LET op == serial.ops[call.op]
       IN  IF call.k > Len(op.outputs)
           THEN /\ pc' = "dispatch"
                /\ UNCHANGED <<serial, mapping, progs, store, results, call>>
           ELSE LET serial_output_varname == op.outputs[call.k]
                    new_varname == serial_output_varname \o dist_varname_suffix
                IN  IF ~needs_partition(mapping[call.inst], serial_output_varname)
                    THEN /\ call' = [call EXCEPT !.k = call.k + 1]
                         /\ UNCHANGED <<serial, mapping, progs, store, results, pc>>
                    ELSE IF serial_output_varname \notin DOMAIN serial.vars
                    THEN Finish("ValueError", 0)
                         /\ UNCHANGED <<serial, mapping, progs, store>>
                    ELSE LET r == partition_var(serial.vars[serial_output_varname],
                                                serial.tensor_attr[serial_output_varname])
                         IN  IF r.fault # "none"
                             THEN Finish(r.fault, 0)
                                  /\ UNCHANGED <<serial, mapping, progs, store>>
                             ELSE /\ CreateMainVar(serial_output_varname, new_varname, r)
                                  /\ mapping' = [mapping EXCEPT ![call.inst] =
                                        record_mapping(@, serial_output_varname, new_varname)]
                                  /\ call' = [call EXCEPT !.k = call.k + 1]
                                  /\ UNCHANGED <<results, pc>>
    /\ UNCHANGED <<sharding, helper, events>>

\* Faulty variant: the capability flag of the implementation is not read.
is_dist_op_forward_implement_unflagged(type, dist_attr) ==
    LET dist_ops == get_distributed_operator(type)
    IN  IF dist_ops.isNone THEN "False"
        ELSE IF dist_attr.isNone THEN "AttributeError"
        ELSE IF dist_attr.impl_idx >= 0 THEN "True" ELSE "False"

\* _is_dist_op_forward_implement: "True", "False", or the fault the
\* expression raises (a None attribute, an index past the implementations)
is_dist_op_forward_implement(type, dist_attr) ==
    LET dist_ops == get_distributed_operator(type)
    IN  IF dist_ops.isNone THEN "False"
        ELSE IF dist_attr.isNone THEN "AttributeError"
        ELSE IF ~(dist_attr.impl_idx >= 0) THEN "False"
        ELSE IF (dist_attr.impl_idx + 1) \notin DOMAIN dist_ops.impls THEN "IndexError"
        ELSE IF dist_ops.impls[dist_attr.impl_idx + 1].forward_implemented
             THEN "True" ELSE "False"

\* partitioner.py:400-411 -- the implementation the forward dispatch selects
\* for an operator of the given type and attribute, or the fault the decision
\* raises
forward_dispatch(type, dist_attr) ==
    LET decision == is_dist_op_forward_implement(type, dist_attr)
    IN  [fault |-> IF decision \in {"True", "False"} THEN "none" ELSE decision,
         impl |-> IF decision = "True"
                  THEN [type |-> type, idx |-> dist_attr.impl_idx]
                  ELSE [type |-> "default", idx |-> 0]]

\* dist_op_helper.prepare_forward_context: the operator's names translated
\* through the varname mapping held by the helper
translate(names) ==
    [k \in DOMAIN names |-> mapping[helper.varname_mapping][names[k]]]

\* dist_op_impl.forward of implementation (impl_type, impl_idx): the operator
\* with its variable references renamed, appended to the helper's main program
DistOp(impl_type, impl_idx, op, src, role) ==
    [type |-> op.type, inputs |-> translate(op.inputs),
     outputs |-> translate(op.outputs),
     impl |-> [type |-> impl_type, idx |-> impl_idx], src |-> src, role |-> role]

\* partitioner.py:396-411 -- dispatch of the current operator
DispatchForward ==
    /\ pc = "dispatch"
    /\ LET op == serial.ops[call.op]
           dist_attr == serial.op_attr[call.op]
           d == forward_dispatch(op.type, dist_attr)
           emitted == DistOp(d.impl.type, d.impl.idx, op, call.op, "Forward")
       IN  IF d.fault # "none"
           THEN Finish(d.fault, 0) /\ UNCHANGED progs
           ELSE /\ progs' = [progs EXCEPT ![helper.dst_main].main_ops = Append(@, emitted)]
                /\ IF call.op < Len(serial.ops)
                   THEN pc' = "input" /\ call' = [call EXCEPT !.op = call.op + 1, !.k = 1]
                   ELSE pc' = "sharding" /\ UNCHANGED call
                /\ UNCHANGED results
    /\ UNCHANGED <<serial, sharding, mapping, helper, store, events>>

\* partitioner.py:233-238 -- the sharding hook, then the return of the two
\* programs (the result records their content at the return)
ForwardSharding ==
    /\ pc = "sharding"
    /\ IF sharding[call.inst]
       THEN Finish("NotSupported", 0)
       ELSE /\ results' = Append(results,
                    Result(call.inst, call.api, call.entry, "ok",
                           call.prog, progs[call.prog]))
            /\ pc' = "idle"
            /\ call' = NoCall
    /\ UNCHANGED <<serial, sharding, mapping, helper, progs, store, events>>

(***************************************************************************)
(* apply_backward                                                          *)
(***************************************************************************)
\* The serial variables a caller passes as the loss.
LossNames == {"loss", "y"}

\* The parameter_list and no_grad_set a caller passes (the empty list stands
\* for None): neither, the parameter w, a parameter b that the serial program
\* does not hold, or the input x as the no-grad set.
BackwardArgs ==
    {[parameter_list |-> <<>>, no_grad_set |-> <<>>],
     [parameter_list |-> <<"w">>, no_grad_set |-> <<>>],
     [parameter_list |-> <<"b">>, no_grad_set |-> <<>>],
     [parameter_list |-> <<>>, no_grad_set |-> <<"x">>]}

\* Programs a caller holds: those a transpile_forward call returned.
ReturnedPrograms ==
    {results[k].prog : k \in {j \in DOMAIN results :
        results[j].api = "transpile_forward" /\ results[j].status = "ok"}}

\* The distributed program handed to apply_backward / apply_optimize: one the
\* caller holds, or a new empty Program (0) when it holds none.
DistProgramArgs == IF ReturnedPrograms = {} THEN {0} ELSE ReturnedPrograms

ProgramArg(p) == IF p = 0 THEN EmptyProgram ELSE progs[p]

\* Faulty variant: a name missing from the table is used as it is.
serial_varname2dist_var_unasserted(table, serial_varname, dist_program) ==
    LET dist_varname == IF serial_varname \in DOMAIN table
                        THEN table[serial_varname] ELSE serial_varname
    IN  IF dist_varname \notin DOMAIN dist_program.main_vars
        THEN [fault |-> "DistVarNotFound", name |-> "none"]
        ELSE [fault |-> "none", name |-> dist_varname]

\* _serial_varname2dist_var
serial_varname2dist_var(table, serial_varname, dist_program) ==
    IF serial_varname \notin DOMAIN table
    THEN [fault |-> "LookupFailure", name |-> "none"]
    ELSE IF table[serial_varname] \notin DOMAIN dist_program.main_vars
    THEN [fault |-> "DistVarNotFound", name |-> "none"]
    ELSE [fault |-> "none", name |-> table[serial_varname]]

\* Faulty variant: the shape of the loss is not examined.
is_scalar_loss_unchecked(shape) == TRUE

\* partitioner.py:437, 673 -- the loss must have shape (1,)
is_scalar_loss(shape) == Len(shape) = 1 /\ shape[1] = 1

\* is_forward_op
is_forward_op(op) == op.role = "Forward" \/ op.role = "Forward|Loss"

\* partitioner.py:187-189, 252-254 -- apply_backward calls
\* apply_backward_impl, and that calls _dist_var_op_backward_transpile, with
\* the loss and the four programs only: parameter_list and no_grad_set are
\* left at their default None there (the empty list stands for None, both
\* are false)
passed_parameter_list(parameter_list) == <<>>

passed_no_grad_set(no_grad_set) == <<>>

\* partitioner.py:443-447, 450-454 -- translation of the parameter list or
\* of the no-grad set: the fault of the first name that cannot be translated,
\* else the translated names
translate_parameter_list(table, parameter_list, dist_program) ==
    LET r == [k \in DOMAIN parameter_list |->
                serial_varname2dist_var(table, parameter_list[k], dist_program)]
        bad == {k \in DOMAIN r : r[k].fault # "none"}
    IN  IF bad = {} THEN [fault |-> "none", names |-> [k \in DOMAIN r |-> r[k].name]]
        ELSE [fault |-> r[CHOOSE k \in bad : \A j \in bad : k <= j].fault,
              names |-> <<>>]

\* partitioner.py:431-454 -- translation and check of the loss, translation
\* of the parameter list and of the no-grad set
ApplyBackward(i, serial_loss, parameter_list, no_grad_set, p) ==
    /\ pc = "idle"
    /\ Len(results) < MaxCalls
    /\ serial_loss \in DOMAIN serial.vars
    /\ LET args == [loss |-> serial_loss, parameter_list |-> parameter_list,
                    no_grad_set |-> no_grad_set]
           dist_program == ProgramArg(p)
           dist_loss == serial_varname2dist_var(mapping[i], serial_loss, dist_program)
           params == translate_parameter_list(
                        mapping[i], passed_parameter_list(parameter_list), dist_program)
           no_grads == translate_parameter_list(
                        mapping[i], passed_no_grad_set(no_grad_set), dist_program)
           fault == IF dist_loss.fault # "none" THEN dist_loss.fault
                    ELSE IF ~is_scalar_loss(dist_program.main_vars[dist_loss.name].shape)
                    THEN "InvalidLoss"
                    ELSE IF params.fault # "none" THEN params.fault
                    ELSE no_grads.fault
       IN  IF fault # "none"
           THEN /\ results' = Append(results,
                        Result(i, "apply_backward", mapping[i], fault, p, <<>>))
                /\ UNCHANGED <<pc, call>>
           ELSE /\ call' = [NoCall EXCEPT !.inst = i, !.api = "apply_backward",
                                          !.prog = p, !.loss = dist_loss.name,
                                          !.parameter_list = params.names,
                                          !.no_grad_set = no_grads.names,
                                          !.args = args, !.entry = mapping[i]]
                /\ pc' = "autodiff"
                /\ UNCHANGED results
    /\ UNCHANGED <<serial, sharding, mapping, helper, progs, store, events>>

GradName(n) == n \o "@GRAD"

\* The gradient operator append_backward emits for the forward operator at
\* position k.
GradOp(op, k) ==
    [type |-> op.type \o "_grad",
     inputs |-> op.inputs \o [j \in DOMAIN op.outputs |-> GradName(op.outputs[j])],
     outputs |-> [j \in DOMAIN op.inputs |-> GradName(op.inputs[j])],
     impl |-> [type |-> "none", idx |-> -1], src |-> k, role |-> "Backward"]

\* The operator that seeds the gradient of the loss.
LossGradOp(loss) ==
    [type |-> "fill_constant", inputs |-> <<>>, outputs |-> <<GradName(loss)>>,
     impl |-> [type |-> "none", idx |-> -1], src |-> 0, role |-> "Backward|Loss"]

\* Gradient operators of the forward operators ops[1..k], last forward first.
RECURSIVE grad_ops(_, _)
grad_ops(ops, k) ==
    IF k = 0 THEN <<>>
    ELSE (IF is_forward_op(ops[k]) THEN <<GradOp(ops[k], k)>> ELSE <<>>)
         \o grad_ops(ops, k - 1)

\* Names of the parameters read by the forward operators ops[1..k], in order.
RECURSIVE param_names(_, _, _)
param_names(prog_vars, ops, k) ==
    IF k = 0 THEN <<>>
    ELSE LET IsParam(n) == n \in DOMAIN prog_vars /\ prog_vars[n].kind = "PARAM"
         IN  param_names(prog_vars, ops, k - 1)
             \o (IF is_forward_op(ops[k]) THEN SelectSeq(ops[k].inputs, IsParam) ELSE <<>>)

\* append_backward: the operators and variables appended to the program that
\* owns the loss, the (parameter, gradient) pairs, and the cross-reference
\* from each gradient operator to its forward operator.
append_backward(prog, p, loss) ==
    LET new_ops == <<LossGradOp(loss)>> \o grad_ops(prog.main_ops, Len(prog.main_ops))
        base == Len(prog.main_ops)
        grad_names == UNION {{new_ops[k].outputs[j] : j \in DOMAIN new_ops[k].outputs} :
                             k \in DOMAIN new_ops}
        params == param_names(prog.main_vars, prog.main_ops, Len(prog.main_ops))
    IN  [ops |-> new_ops,
         vars |-> [g \in grad_names |-> Variable("VAR", <<>>, FALSE, FALSE)],
         params_grads |-> [k \in DOMAIN params |-> <<params[k], GradName(params[k])>>],
         gradopidx2opidx |->
            [id \in {<<p, base + k>> : k \in {j \in DOMAIN new_ops : new_ops[j].src # 0}}
                |-> <<p, new_ops[id[2] - base].src>>]]

\* _auto_backward
AutoBackward ==
    /\ pc = "autodiff"
    /\ LET prog == progs[call.prog]
           r == append_backward(prog, call.prog, call.loss)
       IN  IF ~is_scalar_loss(prog.main_vars[call.loss].shape)
           THEN Finish("InvalidLoss", call.prog) /\ UNCHANGED <<progs, helper, events>>
           ELSE /\ progs' = [progs EXCEPT ![call.prog].main_ops = @ \o r.ops,
                                          ![call.prog].main_vars = @ @@ r.vars]
                /\ helper' = [helper EXCEPT !.gradopidx2opidx = r.gradopidx2opidx @@ @]
                /\ events' = Append(events,
                        [kind |-> "append_backward", call |-> Len(results) + 1,
                         inst |-> call.inst,
                         prog |-> call.prog, loss |-> call.loss,
                         parameter_list |-> call.parameter_list,
                         no_grad_set |-> call.no_grad_set])
                /\ call' = [call EXCEPT !.params_grads = r.params_grads]
                /\ pc' = "complete_backward"
                /\ UNCHANGED results
    /\ UNCHANGED <<serial, sharding, mapping, store>>

\* partitioner.py:474-480 -- position of the first operator whose role is
\* exactly Backward, 0 when there is none
first_backward_op_idx(ops) ==
    LET backward == {k \in DOMAIN ops : ops[k].role = "Backward"}
    IN  IF backward = {} THEN 0
        ELSE CHOOSE k \in backward : \A j \in backward : k <= j

\* partitioner.py:473-480 -- forward operators seen before the scan stops
forward_op_id2forward_op(ops, p) ==
    LET first == first_backward_op_idx(ops)
        last == IF first = 0 THEN Len(ops) ELSE first
    IN  {<<p, k>> : k \in {j \in 1..last : is_forward_op(ops[j])}}

\* complete_backward_annotation, then the scan for the backward operators
CompleteBackward ==
    /\ pc = "complete_backward"
    /\ events' = Append(events, [kind |-> "complete_backward_annotation",
                                 call |-> Len(results) + 1,
                                 inst |-> call.inst, prog |-> call.prog])
    /\ LET ops == progs[call.prog].main_ops
           first == first_backward_op_idx(ops)
           forward_ops == forward_op_id2forward_op(ops, call.prog)
       IN  IF first = 0 \/ forward_ops = {}
           THEN Finish("AssertionError", call.prog)
           ELSE /\ call' = [call EXCEPT !.op = first, !.forward_ops = forward_ops]
                /\ pc' = "backward_op"
                /\ UNCHANGED results
    /\ UNCHANGED <<serial, sharding, mapping, helper, progs, store>>

\* Faulty variant: the forward capability flag is read.
is_dist_op_backward_implement_forward_flag(type, dist_attr) ==
    is_dist_op_forward_implement(type, dist_attr)

\* _is_dist_op_backward_implement
is_dist_op_backward_implement(type, dist_attr) ==
    LET dist_ops == get_distributed_operator(type)
    IN  IF dist_ops.isNone THEN "False"
        ELSE IF dist_attr.isNone THEN "AttributeError"
        ELSE IF ~(dist_attr.impl_idx >= 0) THEN "False"
        ELSE IF (dist_attr.impl_idx + 1) \notin DOMAIN dist_ops.impls THEN "IndexError"
        ELSE IF dist_ops.impls[dist_attr.impl_idx + 1].backward_implemented
             THEN "True" ELSE "False"

\* partitioner.py:499-510 -- the implementation the backward dispatch selects
\* for a forward operator of the given type and attribute, or the fault the
\* decision raises
backward_dispatch(type, dist_attr) ==
    LET decision == is_dist_op_backward_implement(type, dist_attr)
    IN  [fault |-> IF decision \in {"True", "False"} THEN "none" ELSE decision,
         impl |-> IF decision = "True"
                  THEN [type |-> type, idx |-> dist_attr.impl_idx]
                  ELSE [type |-> "default", idx |-> 0]]

\* get_op_distributed_attr_for_program of an operator of a distributed
\* program: the attribute of the serial operator it was emitted for
DistOpAttr(op) ==
    IF op.src \in DOMAIN serial.op_attr THEN serial.op_attr[op.src] ELSE NoneOpAttr

\* Faulty variant: every operator is taken to have a forward operator.
has_forward_op_always(gradopidx2opidx, id) == TRUE

\* partitioner.py:488 -- backward_op.desc.id() in dist_op_helper.gradopidx2opidx
has_forward_op(gradopidx2opidx, id) == id \in DOMAIN gradopidx2opidx

\* partitioner.py:486-512 -- one operator at or after the first backward one
BackwardOp ==
    /\ pc = "backward_op"
    /\ LET ops == progs[call.prog].main_ops
           id == <<call.prog, call.op>>
       IN  IF call.op > Len(ops)
           THEN /\ pc' = "backward_sharding"
                /\ UNCHANGED <<call, results, events>>
           ELSE IF ~has_forward_op(helper.gradopidx2opidx, id)
           THEN /\ call' = [call EXCEPT !.op = call.op + 1]
                /\ UNCHANGED <<pc, results, events>>
           ELSE IF id \notin DOMAIN helper.gradopidx2opidx
           THEN Finish("KeyError", call.prog) /\ UNCHANGED events
           ELSE LET forward_op_id == helper.gradopidx2opidx[id]
                IN  IF forward_op_id \notin call.forward_ops
                    THEN Finish("KeyError", call.prog) /\ UNCHANGED events
                    ELSE LET forward_op == progs[forward_op_id[1]].main_ops[forward_op_id[2]]
                             forward_op_dist_attr == DistOpAttr(forward_op)
                             d == backward_dispatch(forward_op.type,
                                                    forward_op_dist_attr)
                             impl == d.impl
                         IN  IF d.fault # "none"
                             THEN Finish(d.fault, call.prog) /\ UNCHANGED events
                             ELSE /\ events' = Append(events,
                                        [kind |-> "backward", call |-> Len(results) + 1,
                                         inst |-> call.inst,
                                         prog |-> call.prog, op |-> call.op,
                                         forward_op |-> forward_op_id, impl |-> impl,
                                         rank_id |-> helper.rank_id,
                                         dst_main |-> helper.dst_main])
                                  /\ call' = [call EXCEPT !.op = call.op + 1]
                                  /\ UNCHANGED <<pc, results>>
    /\ UNCHANGED <<serial, sharding, mapping, helper, progs, store>>

\* partitioner.py:255-260 -- the sharding hook, then the return of the pairs;
\* new_main_prog is not a name of apply_backward_impl
BackwardSharding ==
    /\ pc = "backward_sharding"
    /\ IF sharding[call.inst]
       THEN Finish("NameError", call.prog)
       ELSE /\ results' = Append(results,
                    Result(call.inst, call.api, call.entry, "ok",
                           call.prog, call.params_grads))
            /\ pc' = "idle"
            /\ call' = NoCall
    /\ UNCHANGED <<serial, sharding, mapping, helper, progs, store, events>>

(***************************************************************************)
(* apply_optimize                                                          *)
(***************************************************************************)
\* The (parameter, gradient) pairs a caller holds: those apply_backward
\* returned, or an empty list.
ParamsGradsArgs ==
    {<<>>} \cup {results[k].value : k \in {j \in DOMAIN results :
        results[j].api = "apply_backward" /\ results[j].status = "ok"}}

\* The operator apply_gradients emits for one (parameter, gradient) pair.
OptimizeOp(pair) ==
    [type |-> "sgd", inputs |-> <<pair[1], pair[2]>>, outputs |-> <<pair[1]>>,
     impl |-> [type |-> "none", idx |-> -1], src |-> 0, role |-> "Optimize"]

\* Faulty variant: the sharding branch is passed over.
ApplyOptimize_unsharded(i, params_grads, p) ==
    /\ pc = "idle"
    /\ Len(results) < MaxCalls
    /\ progs' = IF p = 0 THEN Append(progs, EmptyProgram) ELSE progs
    /\ call' = [NoCall EXCEPT !.inst = i, !.api = "apply_optimize",
                              !.prog = IF p = 0 THEN Len(progs) + 1 ELSE p,
                              !.params_grads = params_grads,
                              !.args = params_grads, !.entry = mapping[i]]
    /\ pc' = "apply_gradients"
    /\ UNCHANGED <<serial, sharding, mapping, helper, store, events, results>>

\* partitioner.py:276-278 -- sharding_optimize_transpile is not a name of the
\* module, so the sharding branch raises NameError
ApplyOptimize(i, params_grads, p) ==
    /\ pc = "idle"
    /\ Len(results) < MaxCalls
    /\ IF sharding[i]
       THEN /\ results' = Append(results,
                    Result(i, "apply_optimize", mapping[i],
                           "NameError", p, <<>>))
            /\ UNCHANGED <<pc, call, progs>>
       ELSE /\ progs' = IF p = 0 THEN Append(progs, EmptyProgram) ELSE progs
            /\ call' = [NoCall EXCEPT !.inst = i, !.api = "apply_optimize",
                                      !.prog = IF p = 0 THEN Len(progs) + 1 ELSE p,
                                      !.params_grads = params_grads,
                                      !.args = params_grads, !.entry = mapping[i]]
            /\ pc' = "apply_gradients"
            /\ UNCHANGED results
    /\ UNCHANGED <<serial, sharding, mapping, helper, store, events>>

\* Faulty variant: the optimizer is not called.
ApplyGradients_skipped ==
    /\ pc = "apply_gradients"
    /\ pc' = "complete_update"
    /\ UNCHANGED <<serial, sharding, mapping, helper, progs, store, call, results,
                   events>>

\* partitioner.py:522-523 -- user_define_optimizer.apply_gradients(params_grads)
ApplyGradients ==
    /\ pc = "apply_gradients"
    /\ LET optimize_ops == [k \in DOMAIN call.params_grads |->
                                OptimizeOp(call.params_grads[k])]
       IN  /\ progs' = [progs EXCEPT ![call.prog].main_ops = @ \o optimize_ops]
           /\ events' = Append(events, [kind |-> "apply_gradients",
                                        call |-> Len(results) + 1,
                                        inst |-> call.inst, prog |-> call.prog,
                                        params_grads |-> call.params_grads,
                                        optimize_ops |-> optimize_ops])
    /\ pc' = "complete_update"
    /\ UNCHANGED <<serial, sharding, mapping, helper, store, call, results>>

\* partitioner.py:525-529 -- complete_update_annotation, then the return
CompleteUpdate ==
    /\ pc = "complete_update"
    /\ events' = Append(events, [kind |-> "complete_update_annotation",
                                 call |-> Len(results) + 1,
                                 inst |-> call.inst, prog |-> call.prog])
    /\ results' = Append(results,
            Result(call.inst, call.api, call.entry, "ok", call.prog,
                   [k \in DOMAIN call.params_grads |-> OptimizeOp(call.params_grads[k])]))
    /\ pc' = "idle"
    /\ call' = NoCall
    /\ UNCHANGED <<serial, sharding, mapping, helper, progs, store>>

Next ==
    \/ \E i \in Instances : TranspileForward(i)
    \/ StartupVar
    \/ StartupOp
    \/ InitHelper
    \/ PartitionInput
    \/ PartitionOutput
    \/ DispatchForward
    \/ ForwardSharding
    \/ \E i \in Instances, serial_loss \in LossNames,
          a \in BackwardArgs, p \in DistProgramArgs :
            ApplyBackward(i, serial_loss, a.parameter_list, a.no_grad_set, p)
    \/ AutoBackward
    \/ CompleteBackward
    \/ BackwardOp
    \/ BackwardSharding
    \/ \E i \in Instances, params_grads \in ParamsGradsArgs, p \in DistProgramArgs :
            ApplyOptimize(i, params_grads, p)
    \/ ApplyGradients
    \/ CompleteUpdate

Spec == Init /\ [][Next]_vars

(***************************************************************************)
(* The two dispatch decisions on their own, applied to every operator of a *)
(* program whose operators have any type and any answer of the             *)
(* distribution-attribute store, the answer None included.                 *)
(***************************************************************************)
\* Operators of one program put before the decisions.
MaxOps == 2

\* "matmul" and "default" are registered, "mean" is not.
DecisionTypes == {"matmul", "mean", "default"}

\* What get_op_distributed_attr_for_program can return for an operator.
DecisionAttrs == {NoneOpAttr} \cup {OpAttr(ProcessMesh, idx) : idx \in -1..2}

DecisionPrograms ==
    UNION {[1..n -> [type : DecisionTypes, dist_attr : DecisionAttrs]] : n \in 1..MaxOps}

DecisionInit ==
    \E ops \in DecisionPrograms :
        /\ serial = [vars |-> EmptyFn,
                     ops |-> [k \in DOMAIN ops |-> Operator(ops[k].type, <<>>, <<>>)],
                     startup_vars |-> <<>>, startup_ops |-> <<>>,
                     tensor_attr |-> EmptyFn,
                     op_attr |-> [k \in DOMAIN ops |-> ops[k].dist_attr]]
        /\ sharding = [i \in Instances |-> FALSE]
        /\ mapping = [i \in Instances |-> EmptyFn]
        /\ helper = NoHelper
        /\ progs = <<>>
        /\ store = {}
        /\ pc = "decide_forward"
        /\ call = [NoCall EXCEPT !.op = 1]
        /\ results = <<>>
        /\ events = <<>>

\* The outcome of one decision: the operator it was made for, the type and
\* the attribute it was made on, the fault raised or "none", and the
\* implementation dispatched to.
Decision(kind, d) ==
    [kind |-> kind, op |-> call.op, type |-> serial.ops[call.op].type,
     dist_attr |-> serial.op_attr[call.op], fault |-> d.fault, impl |-> d.impl]

\* partitioner.py:400-411 on the operator call.op
DecideForward ==
    /\ pc = "decide_forward"
    /\ events' = Append(events,
            Decision("forward", forward_dispatch(serial.ops[call.op].type,
                                                 serial.op_attr[call.op])))
    /\ pc' = "decide_backward"
    /\ UNCHANGED <<serial, sharding, mapping, helper, progs, store, call, results>>

\* partitioner.py:499-510 on the operator call.op as the forward operator
DecideBackward ==
    /\ pc = "decide_backward"
    /\ events' = Append(events,
            Decision("backward", backward_dispatch(serial.ops[call.op].type,
                                                   serial.op_attr[call.op])))
    /\ IF call.op < Len(serial.ops)
       THEN pc' = "decide_forward" /\ call' = [call EXCEPT !.op = call.op + 1]
       ELSE pc' = "decided" /\ UNCHANGED call
    /\ UNCHANGED <<serial, sharding, mapping, helper, progs, store, results>>

DecisionNext == DecideForward \/ DecideBackward

DecisionSpec == DecisionInit /\ [][DecisionNext]_vars

(***************************************************************************)
(* Properties.                                                             *)
(***************************************************************************)
Range(f) == {f[k] : k \in DOMAIN f}

ForwardCalls == {k \in DOMAIN results : results[k].api = "transpile_forward"}

BackwardCalls == {k \in DOMAIN results : results[k].api = "apply_backward"}

HasNullAnnotation ==
    \/ \E k \in DOMAIN serial.op_attr : serial.op_attr[k].isNone
    \/ \E n \in DOMAIN serial.vars : serial.tensor_attr[n].isNone

\* Names the serial main and startup programs make the Partitioner partition.
ReferencedNames ==
    UNION {Range(serial.ops[k].inputs) \cup Range(serial.ops[k].outputs) :
           k \in DOMAIN serial.ops}
    \cup {serial.startup_vars[k].name : k \in DOMAIN serial.startup_vars}

SrcShape(n) == serial.vars[n].shape

SrcMapping(n) == serial.tensor_attr[n].dims_mapping

SrcMesh(n) == serial.tensor_attr[n].mesh

\* A serial variable whose shard shape is computed when it is partitioned.
Shaped(n) ==
    /\ n \in DOMAIN serial.vars
    /\ serial.vars[n].kind # "READER"
    /\ ~serial.tensor_attr[n].isNone

LengthsMatch(n) == Len(SrcShape(n)) = Len(SrcMapping(n))

\* Dimension d of n is a known size split across a mesh axis.
Split(n, d) == SrcShape(n)[d] # -1 /\ SrcMapping(n)[d] # -1

Extent(n, d) == SrcMesh(n)[SrcMapping(n)[d] + 1]

Uneven(n) ==
    /\ LengthsMatch(n)
    /\ \E d \in DOMAIN SrcShape(n) : Split(n, d) /\ SrcShape(n)[d] % Extent(n, d) # 0

FullyDistributed(n) ==
    /\ LengthsMatch(n)
    /\ \A d \in DOMAIN SrcShape(n) : Split(n, d)

DistName(n) == n \o dist_varname_suffix

\* Every destination variable created for the serial variable n.
DstVarsOf(n) ==
    {progs[p].main_vars[DistName(n)] :
        p \in {q \in DOMAIN progs : DistName(n) \in DOMAIN progs[q].main_vars}}
    \cup
    {progs[p].startup_vars[DistName(n)] :
        p \in {q \in DOMAIN progs : DistName(n) \in DOMAIN progs[q].startup_vars}}

\* n is the only variable of the serial program that cannot be partitioned.
OnlyIllShaped(n) ==
    /\ ~HasNullAnnotation
    /\ \A m \in DOMAIN serial.vars \ {n} : Shaped(m) => LengthsMatch(m) /\ ~Uneven(m)

\* C1: transpile_forward on a serial program in which an operator or a
\* variable has no distribution attribute raises IncompleteAnnotation before
\* any partitioning: no destination variable or operator exists, no name is
\* renamed and no attribute is set.
C1_IncompleteAnnotation ==
    HasNullAnnotation =>
        /\ \A k \in ForwardCalls :
                results[k].status = "IncompleteAnnotation" /\ results[k].prog = 0
        /\ call.api # "transpile_forward"
        /\ \A p \in DOMAIN progs : progs[p] = EmptyProgram
        /\ \A i \in Instances : mapping[i] = EmptyFn
        /\ store = {}

C1_Witness ==
    /\ \E n \in DOMAIN serial.vars : serial.tensor_attr[n].isNone
    /\ \E k \in ForwardCalls : results[k].status = "IncompleteAnnotation"

ShardDim(n, d) ==
    IF SrcShape(n)[d] = -1 \/ SrcMapping(n)[d] = -1
    THEN SrcShape(n)[d]
    ELSE SrcShape(n)[d] \div Extent(n, d)

\* C2: the partitioned shape of a variable whose shape and dims mapping have
\* equal length keeps a wildcard or undistributed dimension and divides every
\* other dimension exactly by the extent of its mesh axis; [256, 64] with
\* mapping [0, -1] on an axis of extent 4 gives [64, 64].
C2_ShardShape ==
    \A n \in DOMAIN serial.vars :
        Shaped(n) /\ LengthsMatch(n) =>
            \A v \in DstVarsOf(n) :
                /\ Len(v.shape) = Len(SrcShape(n))
                /\ \A d \in DOMAIN SrcShape(n) :
                      /\ v.shape[d] = ShardDim(n, d)
                      /\ Split(n, d) => SrcShape(n)[d] % Extent(n, d) = 0
                /\ (SrcShape(n) = <<256, 64>> /\ SrcMapping(n) = <<0, -1>>
                        /\ SrcMesh(n)[1] = 4)
                    => v.shape = <<64, 64>>

C2_Witness ==
    /\ SrcShape("w") = <<256, 64>> /\ SrcMapping("w") = <<0, -1>>
    /\ \E p \in DOMAIN progs :
          /\ "w" \in DOMAIN progs[p].main_vars
          /\ progs[p].main_vars["w"].shape = <<64, 64>>
          /\ "x" \in DOMAIN progs[p].main_vars
          /\ progs[p].main_vars["x"].shape = <<-1, 256>>

\* C3: a variable with a known dimension mapped to a mesh axis whose extent
\* does not divide it makes transpile_forward raise UnevenPartition: the call
\* returns no program, and the variable gets no destination variable and no
\* entry in the renaming table.
C3_UnevenPartition ==
    \A n \in DOMAIN serial.vars :
        Shaped(n) /\ Uneven(n) /\ n \in ReferencedNames =>
            /\ DstVarsOf(n) = {}
            /\ \A i \in Instances : n \notin DOMAIN mapping[i]
            /\ \A k \in ForwardCalls :
                  /\ results[k].status # "ok"
                  /\ results[k].prog = 0
                  /\ OnlyIllShaped(n) => results[k].status = "UnevenPartition"

C3_Witness ==
    /\ SrcShape("y") = <<255, 64>> /\ SrcMapping("y") = <<0, -1>>
    /\ \E k \in ForwardCalls :
          /\ results[k].status = "UnevenPartition"
          /\ "x" \in DOMAIN mapping[results[k].inst]

\* C4: a non-reader variable whose shape and dims mapping differ in length
\* makes transpile_forward raise ShapeMismatch, also when one of its
\* dimensions could not be divided evenly, and no destination variable is
\* created for it.
C4_ShapeMismatch ==
    \A n \in DOMAIN serial.vars :
        Shaped(n) /\ ~LengthsMatch(n) /\ n \in ReferencedNames =>
            /\ DstVarsOf(n) = {}
            /\ \A i \in Instances : n \notin DOMAIN mapping[i]
            /\ \A k \in ForwardCalls :
                  /\ results[k].status # "ok"
                  /\ OnlyIllShaped(n) => results[k].status = "ShapeMismatch"

C4_Witness ==
    /\ SrcShape("y") = <<255>> /\ SrcMapping("y") = <<0, -1>>
    /\ \E k \in ForwardCalls :
          /\ results[k].status = "ShapeMismatch"
          /\ "x" \in DOMAIN mapping[results[k].inst]

\* C5: for a variable all of whose dimensions are known and mapped to a mesh
\* axis, each dimension of the partitioned shape times the extent of its axis
\* is the global dimension.
C5_ShardTimesExtent ==
    \A n \in DOMAIN serial.vars :
        Shaped(n) /\ FullyDistributed(n) =>
            \A v \in DstVarsOf(n) :
                /\ DOMAIN v.shape = DOMAIN SrcShape(n)
                /\ \A d \in DOMAIN SrcShape(n) :
                      v.shape[d] * Extent(n, d) = SrcShape(n)[d]

C5_Witness ==
    /\ SrcShape("w") = <<256, 64>> /\ SrcMapping("w") = <<1, 0>>
    /\ \E p \in DOMAIN progs :
          /\ "w" \in DOMAIN progs[p].main_vars
          /\ progs[p].main_vars["w"].shape = <<128, 16>>

\* The implementation the forward dispatch must select for serial operator k.
ExpectedForwardImpl(k) ==
    LET type == serial.ops[k].type
        idx == serial.op_attr[k].impl_idx
    IN  IF /\ type \in DOMAIN DistributedOperators
           /\ idx >= 0
           /\ DistributedOperators[type][idx + 1].forward_implemented
        THEN [type |-> type, idx |-> idx]
        ELSE [type |-> "default", idx |-> 0]

\* Every variable of the serial program can be partitioned.
WellFormedSerial ==
    /\ ~HasNullAnnotation
    /\ \A k \in DOMAIN serial.startup_ops :
          /\ Len(serial.startup_ops[k].outputs) = 1
          /\ \E v \in Range(serial.startup_vars) :
                v.kind = "PARAM" /\ v.name = serial.startup_ops[k].outputs[1]
    /\ \A n \in DOMAIN serial.vars : Shaped(n) => LengthsMatch(n) /\ ~Uneven(n)

OkForwardCalls == {k \in ForwardCalls : results[k].status = "ok"}

\* C6: every serial operator is dispatched exactly once, in order: to the
\* implementation chosen by its index iff its type is registered, the index is
\* >= 0 and the implementation declares forward support, else to "default" at
\* index 0, which emits the operator with its names renamed through the
\* renaming table; an unregistered type does not abort the call.
C6_ForwardDispatch ==
    /\ \A k \in OkForwardCalls :
          LET out == results[k].value.main_ops
              table == mapping[results[k].inst]
          IN  /\ Len(out) = Len(serial.ops)
              /\ \A j \in DOMAIN out :
                    /\ out[j].src = j
                    /\ out[j].impl = ExpectedForwardImpl(j)
                    /\ out[j].impl.type = "default" =>
                          /\ out[j].type = serial.ops[j].type
                          /\ out[j].inputs =
                                [m \in DOMAIN serial.ops[j].inputs |->
                                    table[serial.ops[j].inputs[m]]]
                          /\ out[j].outputs =
                                [m \in DOMAIN serial.ops[j].outputs |->
                                    table[serial.ops[j].outputs[m]]]
    /\ \A k \in ForwardCalls :
          WellFormedSerial /\ ~sharding[results[k].inst] => results[k].status = "ok"

C6_Witness ==
    \E k \in OkForwardCalls :
        \E j1, j2 \in DOMAIN results[k].value.main_ops :
            /\ results[k].value.main_ops[j1].type = "matmul"
            /\ results[k].value.main_ops[j1].impl = [type |-> "matmul", idx |-> 0]
            /\ results[k].value.main_ops[j2].type = "mean"
            /\ results[k].value.main_ops[j2].impl = [type |-> "default", idx |-> 0]
            /\ serial.op_attr[j2].impl_idx = 0

\* C7: an entry of the renaming table of a Partitioner is never changed or
\* removed by any step of any call.
C7_AppendOnly ==
    [][\A i \in Instances : \A n \in DOMAIN mapping[i] :
            n \in DOMAIN mapping'[i] /\ mapping'[i][n] = mapping[i][n]]_vars

C7_Witness ==
    \E i \in Instances :
        /\ Len(results) = 3
        /\ \A k \in DOMAIN results : results[k].inst = i
        /\ results[1].api = "transpile_forward"
        /\ results[1].status = "UnevenPartition"
        /\ results[2].api = "apply_backward"
        /\ results[3].api = "transpile_forward"
        /\ DOMAIN mapping[i] = {"x", "w"}

\* The names a distributed operator references, inputs first.
OpNames(op) == op.inputs \o op.outputs

\* C8 as stated: after a successful transpile_forward every name referenced
\* by an operator of the output main program is a variable of that program,
\* block-external names included.
C8_ReferentialClosure ==
    \A k \in OkForwardCalls :
        \A j \in DOMAIN results[k].value.main_ops :
            Range(OpNames(results[k].value.main_ops[j]))
                \subseteq DOMAIN results[k].value.main_vars

\* C8 amended: every name referenced by an operator of the output main
\* program is the renamed name of the serial operator's variable, and it is a
\* variable of the output program exactly when the serial name is a variable
\* of the serial block that was not in the renaming table when the call began.
C8_ClosureOfPartitioned ==
    \A k \in OkForwardCalls :
        LET g == results[k].value
        IN  \A j \in DOMAIN g.main_ops :
                LET dist_names == OpNames(g.main_ops[j])
                    serial_names == OpNames(serial.ops[g.main_ops[j].src])
                IN  /\ Len(dist_names) = Len(serial_names)
                    /\ \A m \in DOMAIN dist_names :
                          /\ dist_names[m] = DistName(serial_names[m])
                          /\ dist_names[m] \in DOMAIN g.main_vars
                                <=> /\ serial_names[m] \in DOMAIN serial.vars
                                    /\ serial_names[m] \notin DOMAIN results[k].entry

C8_Witness ==
    \E k \in OkForwardCalls :
        /\ results[k].entry = EmptyFn
        /\ \E j \in DOMAIN results[k].value.main_ops :
              "lod_tensor_blocking_queue_0" \in Range(results[k].value.main_ops[j].inputs)
        /\ "lod_tensor_blocking_queue_0" \notin DOMAIN results[k].value.main_vars
        /\ {"reader", "x", "w", "y", "loss"} \subseteq DOMAIN results[k].value.main_vars

\* C9 as stated: any two successful transpile_forward calls on the same
\* serial programs return programs with the same variable names, the same
\* variable shapes and the same operator order.
C9_Determinism ==
    \A k1, k2 \in OkForwardCalls :
        LET g1 == results[k1].value
            g2 == results[k2].value
        IN  /\ DOMAIN g1.main_vars = DOMAIN g2.main_vars
            /\ \A n \in DOMAIN g1.main_vars \cap DOMAIN g2.main_vars :
                  g1.main_vars[n].shape = g2.main_vars[n].shape
            /\ g1.main_ops = g2.main_ops

\* The serial variables the main loop partitions.
MainReferencedVars ==
    {n \in DOMAIN serial.vars :
        \E k \in DOMAIN serial.ops : n \in Range(OpNames(serial.ops[k]))}

\* C9 amended: two successful transpile_forward calls return the same
\* operators in the same order and the same startup program; they return the
\* same main program when the renaming tables held the same entries at call
\* entry (two fresh objects); a call creates main variables only for the names
\* that were not in the renaming table at its entry.
C9_DeterminismFromEqualTables ==
    \A k1, k2 \in OkForwardCalls :
        LET g1 == results[k1].value
            g2 == results[k2].value
        IN  /\ g1.main_ops = g2.main_ops
            /\ g1.startup_vars = g2.startup_vars
            /\ g1.startup_ops = g2.startup_ops
            /\ results[k1].entry = results[k2].entry => g1 = g2
            /\ DOMAIN g1.main_vars =
                  {DistName(n) : n \in MainReferencedVars \ DOMAIN results[k1].entry}
            /\ \A n \in DOMAIN g1.main_vars \cap DOMAIN g2.main_vars :
                  g1.main_vars[n].shape = g2.main_vars[n].shape

C9_Witness ==
    /\ Len(results) = 3
    /\ DOMAIN results = OkForwardCalls
    /\ results[1].inst # results[2].inst
    /\ results[3].inst = results[1].inst
    /\ results[1].value = results[2].value
    /\ DOMAIN results[1].value.main_vars = {"x", "w", "y", "loss"}
    /\ results[3].value.main_vars = EmptyFn
    /\ results[3].value.main_ops = results[1].value.main_ops

\* No transpile_forward call was made on object i.
NeverRanForward(i) ==
    /\ \A k \in ForwardCalls : results[k].inst # i
    /\ ~(call.inst = i /\ call.api = "transpile_forward")

\* C10: apply_backward on a Partitioner whose renaming table is empty (as it
\* is when transpile_forward never ran on it) raises LookupFailure, whatever
\* loss, parameter list and distributed program are passed: autodiff is not
\* invoked, no backward step runs and no pairs are returned.
C10_BackwardBeforeForward ==
    \A i \in Instances :
        /\ NeverRanForward(i) => mapping[i] = EmptyFn
        /\ mapping[i] = EmptyFn =>
              /\ \A k \in BackwardCalls :
                    results[k].inst = i =>
                        results[k].status = "LookupFailure" /\ results[k].value = <<>>
              /\ ~(call.inst = i /\ call.api = "apply_backward")
              /\ \A e \in DOMAIN events :
                    events[e].inst = i =>
                        events[e].kind \notin {"append_backward",
                                               "complete_backward_annotation",
                                               "backward"}

C10_Witness ==
    \E k \in BackwardCalls :
        /\ NeverRanForward(results[k].inst)
        /\ results[k].status = "LookupFailure"
        /\ results[k].prog # 0
        /\ "loss" \in DOMAIN progs[results[k].prog].main_vars

\* The shape (1,) of a scalar loss.
ScalarShape(shape) == shape = <<1>>

\* The serial variables whose distributed name is dist_name for object i.
SerialNamesOf(i, dist_name) ==
    {n \in DOMAIN mapping[i] \cap DOMAIN serial.vars : mapping[i][n] = dist_name}

\* The status of the call that finished in this step, "running" otherwise.
Outcome == IF Len(results') > Len(results) THEN results'[Len(results')].status
           ELSE "running"

\* C11 as stated: autodiff is invoked only for a serial loss of shape (1,);
\* any other serial loss ends the call with InvalidLoss.
C11_SerialLossChecked ==
    \A e \in DOMAIN events :
        events[e].kind = "append_backward" =>
            \A n \in SerialNamesOf(events[e].inst, events[e].loss) :
                ScalarShape(serial.vars[n].shape)

\* C11 amended: apply_backward translates the loss first (LookupFailure when
\* its name is not in the renaming table) and then checks the shape of the
\* distributed loss: the call ends with InvalidLoss, autodiff not invoked,
\* exactly when that shape is not (1,); the second check, made on the same
\* distributed loss before autodiff, passes whenever the first did.  The
\* shape of the serial loss is not examined.
C11_DistLossChecked ==
    [][/\ \A i \in Instances, serial_loss \in LossNames, a \in BackwardArgs,
            p \in DistProgramArgs :
            ApplyBackward(i, serial_loss, a.parameter_list, a.no_grad_set, p) =>
                /\ serial_loss \notin DOMAIN mapping[i] => Outcome = "LookupFailure"
                /\ /\ serial_loss \in DOMAIN mapping[i]
                   /\ mapping[i][serial_loss] \in DOMAIN ProgramArg(p).main_vars
                   => (Outcome = "InvalidLoss"
                        <=> ~ScalarShape(
                               ProgramArg(p).main_vars[mapping[i][serial_loss]].shape))
                /\ Outcome = "InvalidLoss" => events' = events /\ progs' = progs
       /\ pc = "autodiff" =>
            /\ ScalarShape(progs[call.prog].main_vars[call.loss].shape)
            /\ Outcome = "running"
            /\ events'[Len(events')].kind = "append_backward"
       /\ \A e \in DOMAIN events' :
            events'[e].kind = "append_backward" =>
                ScalarShape(progs'[events'[e].prog].main_vars[events'[e].loss].shape)
      ]_vars

C11_Witness ==
    /\ serial.vars["loss"].shape = <<4>>
    /\ \E k \in BackwardCalls :
          /\ results[k].status = "ok"
          /\ \E e \in DOMAIN events :
                /\ events[e].kind = "append_backward"
                /\ events[e].call = k
                /\ events[e].loss = "loss"
                /\ progs[events[e].prog].main_vars["loss"].shape = <<1>>
    /\ \E k \in BackwardCalls : results[k].status = "InvalidLoss"

\* The running call is an apply_backward that has invoked autodiff.
PastAutodiff ==
    call.api = "apply_backward"
        /\ pc \in {"complete_backward", "backward_op", "backward_sharding"}

\* The append_backward invocations of the running call.
RunningAutodiffEvents ==
    {e \in DOMAIN events :
        events[e].kind = "append_backward" /\ events[e].call = Len(results) + 1}

\* `received` is the list `given` translated through the renaming table.
IsTranslationOf(table, given, received) ==
    /\ Range(given) \subseteq DOMAIN table
    /\ received = [k \in DOMAIN given |-> table[given[k]]]

\* C12 as stated: the parameter list and the no-grad set the caller gave to
\* apply_backward reach autodiff translated through the renaming table, and a
\* call that names a variable missing from the table does not reach autodiff.
C12_TranslatedSetsPassed ==
    PastAutodiff =>
        \A e \in RunningAutodiffEvents :
            /\ IsTranslationOf(mapping[call.inst], call.args.parameter_list,
                               events[e].parameter_list)
            /\ IsTranslationOf(mapping[call.inst], call.args.no_grad_set,
                               events[e].no_grad_set)

\* C12, the failing case: autodiff was invoked without a parameter list by a
\* call that was given one naming a variable the renaming table does not hold.
C12_Witness ==
    /\ PastAutodiff
    /\ call.args.parameter_list = <<"b">>
    /\ "b" \notin DOMAIN mapping[call.inst]
    /\ \E e \in RunningAutodiffEvents : events[e].parameter_list = <<>>

\* The attributes the store holds for program p.
StoreOf(st, p) == {w \in st : w.prog = p}

\* C13 as stated: when transpile_forward raises NotSupported, the call has
\* partitioned no variable and dispatched no operator, the renaming table is
\* as it was at call entry and the store holds nothing written by the call.
C13_FailsBeforeForwardWork ==
    [][Outcome = "NotSupported" /\ call.api = "transpile_forward" =>
            /\ progs'[call.prog] = EmptyProgram
            /\ mapping'[call.inst] = call.entry
            /\ StoreOf(store', call.prog) = {}
      ]_vars

\* C13, the failing case: a transpile_forward call that ended NotSupported on
\* a fresh object left the names of the serial program in its renaming table,
\* the partitioned variables and dispatched operators in the new program,
\* and their attributes in the store.
C13_Witness ==
    \E k \in ForwardCalls :
        /\ results[k].status = "NotSupported"
        /\ results[k].entry = EmptyFn
        /\ sharding[results[k].inst]
        /\ DOMAIN mapping[results[k].inst] = {"x", "w", "y", "loss"}
        /\ \E p \in DOMAIN progs :
              /\ Len(progs[p].main_ops) >= Len(serial.ops)
              /\ {"x", "w", "y", "loss"} \subseteq DOMAIN progs[p].main_vars
              /\ StoreOf(store, p) # {}
              /\ p \notin ReturnedPrograms

\* C14 as stated: apply_backward of an object with the sharding strategy,
\* given a program in which the distributed loss is a scalar, ends with
\* NotSupported and returns no pairs.
C14_BackwardNotSupported ==
    [][/\ call.api = "apply_backward"
       /\ sharding[call.inst]
       /\ Outcome # "running"
       => Outcome = "NotSupported"
      ]_vars

\* C14, the failing case: such a call ran autodiff and every backward
\* dispatch and then ended with NameError.
C14_Witness ==
    \E k \in BackwardCalls :
        /\ sharding[results[k].inst]
        /\ results[k].status = "NameError"
        /\ \E e \in DOMAIN events :
              events[e].kind = "append_backward" /\ events[e].call = k
        /\ \E e \in DOMAIN events :
              events[e].kind = "backward" /\ events[e].call = k

OptimizeCalls == {k \in DOMAIN results : results[k].api = "apply_optimize"}

\* The collaborator invocations and dispatches made by call number k.
EventsOf(k) == {e \in DOMAIN events : events[e].call = k}

\* C15: with sharding disabled apply_optimize gives the pairs it received,
\* unchanged, to apply_gradients exactly once, then calls
\* complete_update_annotation on the distributed main program exactly once,
\* and returns the operators apply_gradients emitted.
C15_OptimizeOrder ==
    /\ \A k \in OptimizeCalls :
          ~sharding[results[k].inst] =>
              /\ results[k].status = "ok"
              /\ \E e \in DOMAIN events :
                    /\ EventsOf(k) = {e, e + 1}
                    /\ events[e].kind = "apply_gradients"
                    /\ events[e + 1].kind = "complete_update_annotation"
                    /\ events[e].prog = results[k].prog
                    /\ events[e + 1].prog = results[k].prog
                    /\ results[k].value = events[e].optimize_ops
                    /\ Len(events[e].optimize_ops) = Len(events[e].params_grads)
    /\ call.api = "apply_optimize" =>
          /\ ~sharding[call.inst]
          /\ pc = "apply_gradients" => EventsOf(Len(results) + 1) = {}
          /\ pc = "complete_update" =>
                /\ EventsOf(Len(results) + 1) = {Len(events)}
                /\ events[Len(events)].kind = "apply_gradients"
                /\ events[Len(events)].params_grads = call.args
                /\ events[Len(events)].prog = call.prog

C15_Witness ==
    \E k \in OptimizeCalls :
        /\ results[k].status = "ok"
        /\ Len(results[k].value) = 1
        /\ results[k].value[1].inputs = <<"w", "w@GRAD">>
        /\ \E e \in EventsOf(k) :
              /\ events[e].kind = "apply_gradients"
              /\ events[e].params_grads = << <<"w", "w@GRAD">> >>

\* C16: no step of a transpile_forward call, successful or failed, changes
\* the serial main and startup programs or the attributes stored for their
\* variables and operators; the call works on a program it has created, and
\* every attribute it sets belongs to a variable or operator of that program.
C16_InputsPreserved ==
    [][/\ serial' = serial
       /\ pc = "idle" /\ pc' = "startup_var" =>
            /\ Len(progs') = Len(progs) + 1
            /\ call'.prog = Len(progs')
            /\ call'.prog \notin ReturnedPrograms
            /\ progs'[call'.prog] = EmptyProgram
            /\ \A q \in DOMAIN progs : progs'[q] = progs[q]
       /\ call.api = "transpile_forward" =>
            /\ \A q \in DOMAIN progs \ {call.prog} : progs'[q] = progs[q]
            /\ \A w \in store' \ store :
                  /\ w.prog = call.prog
                  /\ w.kind = "tensor" => w.attr.owner = "dst"
      ]_vars

C16_Witness ==
    /\ \E k \in OkForwardCalls :
          \E w \in StoreOf(store, results[k].prog) :
              w.kind = "tensor" /\ w.name = "w" /\ w.attr.owner = "dst"
    /\ \E k \in ForwardCalls : results[k].status = "NotSupported"
    /\ \A n \in DOMAIN serial.vars : serial.tensor_attr[n].owner = "src"
    /\ Len(serial.ops) = 2

\* C17: the serial operators are dispatched one at a time in their order,
\* so the operators emitted for an earlier serial operator precede those
\* emitted for a later one; when an operator is about to be dispatched every
\* name it references is in the renaming table, and the variable has been
\* created in the new program if this call had to partition it.
C17_DispatchOrder ==
    /\ \A p \in DOMAIN progs :
          \A j1, j2 \in DOMAIN progs[p].main_ops :
              /\ progs[p].main_ops[j1].role = "Forward"
              /\ progs[p].main_ops[j2].role = "Forward"
              /\ j1 < j2
              => progs[p].main_ops[j1].src < progs[p].main_ops[j2].src
    /\ call.api = "transpile_forward" /\ pc \in {"input", "output", "dispatch"} =>
          /\ Len(progs[call.prog].main_ops) = call.op - 1
          /\ \A j \in DOMAIN progs[call.prog].main_ops :
                progs[call.prog].main_ops[j].src = j
    /\ pc = "dispatch" =>
          \A n \in Range(OpNames(serial.ops[call.op])) :
              /\ n \in DOMAIN mapping[call.inst]
              /\ n \in DOMAIN serial.vars /\ n \notin DOMAIN call.entry =>
                    mapping[call.inst][n] \in DOMAIN progs[call.prog].main_vars

C17_Witness ==
    /\ pc = "dispatch"
    /\ call.op = 2
    /\ call.entry = EmptyFn
    /\ Len(progs[call.prog].main_ops) = 1
    /\ progs[call.prog].main_ops[1].type = "matmul"
    /\ serial.ops[2].type = "mean"
    /\ {"x", "w", "y", "loss"} \subseteq DOMAIN progs[call.prog].main_vars

\* The implementation the backward dispatch must select for a gradient
\* operator whose forward operator was emitted for serial operator k.
ExpectedBackwardImpl(k) ==
    LET type == serial.ops[k].type
        idx == serial.op_attr[k].impl_idx
    IN  IF /\ type \in DOMAIN DistributedOperators
           /\ idx >= 0
           /\ DistributedOperators[type][idx + 1].backward_implemented
        THEN [type |-> type, idx |-> idx]
        ELSE [type |-> "default", idx |-> 0]

\* Position of the first operator with the role Backward, 0 if there is none.
FirstBackward(ops) ==
    IF \E k \in DOMAIN ops : ops[k].role = "Backward"
    THEN CHOOSE k \in DOMAIN ops :
            ops[k].role = "Backward" /\ \A j \in 1..(k - 1) : ops[j].role # "Backward"
    ELSE 0

\* The operator at position j of program p has a recorded forward operator.
CrossReferenced(p, j) == <<p, j>> \in DOMAIN helper.gradopidx2opidx

\* The backward dispatches the running call has made for position j.
RunningDispatchesOf(j) ==
    {e \in EventsOf(Len(results) + 1) : events[e].kind = "backward" /\ events[e].op = j}

\* The backward loop of the running apply_backward has ended.
BackwardLoopDone == call.api = "apply_backward" /\ pc = "backward_sharding"

\* C18: when the backward loop has ended, every operator at or after the
\* first Backward operator that has a recorded forward operator has been
\* dispatched exactly once, to the implementation of the forward operator's
\* type at the forward operator's index if that is registered, the index is
\* >= 0 and it declares backward support, otherwise to "default" at index 0.
C18_BackwardDispatch ==
    BackwardLoopDone =>
        LET ops == progs[call.prog].main_ops
        IN  \A j \in FirstBackward(ops)..Len(ops) :
                CrossReferenced(call.prog, j) =>
                    /\ Cardinality(RunningDispatchesOf(j)) = 1
                    /\ \A e \in RunningDispatchesOf(j) :
                          LET fwd == helper.gradopidx2opidx[<<call.prog, j>>]
                          IN  /\ events[e].forward_op = fwd
                              /\ events[e].impl =
                                    ExpectedBackwardImpl(progs[fwd[1]].main_ops[fwd[2]].src)

C18_Witness ==
    /\ BackwardLoopDone
    /\ \E e1, e2 \in EventsOf(Len(results) + 1) :
          /\ events[e1].kind = "backward"
          /\ events[e1].impl = [type |-> "matmul", idx |-> 1]
          /\ progs[call.prog].main_ops[events[e1].op].type = "matmul_grad"
          /\ events[e2].kind = "backward"
          /\ events[e2].impl = [type |-> "default", idx |-> 0]
          /\ progs[call.prog].main_ops[events[e2].op].type = "mean_grad"

\* C19: the backward loop steps over an operator that has no recorded forward
\* operator without dispatching anything and without changing the program,
\* and goes on with the next operator; no dispatch is ever made for such an
\* operator or for an operator before the first Backward operator.
C19_NoCrossReferenceUntouched ==
    [][/\ pc = "backward_op" /\ call.op <= Len(progs[call.prog].main_ops)
          /\ ~CrossReferenced(call.prog, call.op)
          => /\ events' = events
             /\ progs' = progs
             /\ pc' = "backward_op"
             /\ call'.op = call.op + 1
       /\ \A e \in DOMAIN events' :
             events'[e].kind = "backward" =>
                /\ CrossReferenced(events'[e].prog, events'[e].op)
                /\ events'[e].op >= FirstBackward(progs'[events'[e].prog].main_ops)
                /\ FirstBackward(progs'[events'[e].prog].main_ops) > 0
       /\ call.api = "apply_backward" => \A p \in DOMAIN progs :
             \A j \in DOMAIN progs[p].main_ops :
                ~CrossReferenced(p, j) => progs'[p].main_ops[j] = progs[p].main_ops[j]
      ]_vars

C19_Witness ==
    /\ BackwardLoopDone
    /\ \E j \in DOMAIN progs[call.prog].main_ops :
          /\ j > FirstBackward(progs[call.prog].main_ops)
          /\ FirstBackward(progs[call.prog].main_ops) > 0
          /\ ~CrossReferenced(call.prog, j)
          /\ progs[call.prog].main_ops[j].type = "fill_constant"
          /\ RunningDispatchesOf(j) = {}
    /\ \E j \in DOMAIN progs[call.prog].main_ops : RunningDispatchesOf(j) # {}

\* The names of the Parameters of the serial startup program.
StartupParams ==
    {v.name : v \in {u \in Range(serial.startup_vars) : u.kind = "PARAM"}}

\* The shard shape of the serial variable n.
ShardShape(n) == [d \in DOMAIN SrcShape(n) |-> ShardDim(n, d)]

\* The distributed programs whose startup graph is complete: those returned by
\* transpile_forward and the one of a running transpile_forward that has left
\* the two startup loops.
StartupDone ==
    {results[k].prog : k \in OkForwardCalls}
    \cup (IF /\ call.api = "transpile_forward"
             /\ pc \notin {"idle", "startup_var", "startup_op"}
          THEN {call.prog} ELSE {})

\* C20: the startup graph is handled once, before any operator of the main
\* graph is visited: each of its Parameters is partitioned with its shard
\* shape, and each of its operators, which has exactly one output and that
\* output is a partitioned Parameter, is copied once with the output renamed
\* and the shape attribute set to the shard shape, under a distribution
\* attribute that carries the Parameter's mesh and dims mapping.
C20_StartupHandling ==
    /\ pc \in {"startup_var", "startup_op"} =>
          /\ progs[call.prog].main_ops = <<>>
          /\ progs[call.prog].main_vars = EmptyFn
          /\ mapping[call.inst] = call.entry
    /\ pc = "startup_op" =>
          Len(progs[call.prog].startup_ops) = call.k - 1
    /\ \A p \in StartupDone :
          /\ DOMAIN progs[p].startup_vars = {DistName(n) : n \in StartupParams}
          /\ \A n \in StartupParams :
                /\ progs[p].startup_vars[DistName(n)].shape = ShardShape(n)
                /\ \E w \in StoreOf(store, p) :
                      /\ w.kind = "tensor" /\ w.block = "startup"
                      /\ w.name = DistName(n)
          /\ Len(progs[p].startup_ops) = Len(serial.startup_ops)
          /\ \A j \in DOMAIN serial.startup_ops :
                LET op == serial.startup_ops[j]
                    new_op == progs[p].startup_ops[j]
                    out == op.outputs[1]
                IN  /\ Len(op.outputs) = 1
                    /\ out \in StartupParams
                    /\ new_op.type = op.type
                    /\ new_op.inputs = op.inputs
                    /\ new_op.outputs = <<DistName(out)>>
                    /\ new_op.shape = ShardShape(out)
                    /\ {w.attr : w \in {u \in StoreOf(store, p) :
                            /\ u.kind = "op" /\ u.block = "startup"
                            /\ u.name = j}}
                       = {[isNone |-> FALSE, mesh |-> SrcMesh(out),
                           output_dims_mapping |-> SrcMapping(out),
                           input_dims_mapping |-> SrcMapping(out)]}

\* A forward call has left the startup loops with the initializer of w copied
\* for a w that is split over the mesh.
C20_Witness ==
    /\ pc = "input"
    /\ call.api = "transpile_forward"
    /\ Len(progs[call.prog].startup_ops) = 1
    /\ progs[call.prog].startup_ops[1].outputs = <<DistName("w")>>
    /\ progs[call.prog].startup_ops[1].shape = ShardShape("w")
    /\ \E d \in DOMAIN SrcShape("w") : Split("w", d)
    /\ progs[call.prog].main_ops = <<>>

\* The decisions made on an operator for which the store returned None.
NullDecisions ==
    {e \in Range(events) :
        e.kind \in {"forward", "backward"} /\ e.dist_attr.isNone}

\* C21: whenever the store returns no attribute for an operator, the forward
\* and the backward decision dispatch it to the default replicate
\* implementation and raise no fault, whether or not the operator's type has
\* registered implementations.
C21_NullAttrFallsBack ==
    \A e \in NullDecisions :
        e.fault = "none" /\ e.impl = [type |-> "default", idx |-> 0]

\* Both decisions were made on a matmul for which the store returned None, and
\* both raised AttributeError.
C21_Witness ==
    \E f, b \in NullDecisions :
        /\ f.kind = "forward" /\ b.kind = "backward"
        /\ f.op = b.op
        /\ f.type = "matmul"
        /\ ~get_distributed_operator(f.type).isNone
        /\ f.fault = "AttributeError" /\ b.fault = "AttributeError"

\* The reader variables of the serial program.
ReaderNames == {n \in DOMAIN serial.vars : serial.vars[n].kind = "READER"}

\* C22: a reader variable is never reshaped when partitioned: no shard shape
\* is computed for it, so it makes no call raise ShapeMismatch or
\* UnevenPartition, and it is recreated with the kind and the metadata of the
\* source and marked persistent.
C22_ReaderRecreated ==
    \A n \in ReaderNames :
        /\ \A v \in DstVarsOf(n) :
              /\ v.kind = serial.vars[n].kind
              /\ v.shape = serial.vars[n].shape
              /\ v.stop_gradient = serial.vars[n].stop_gradient
              /\ v.persistable
        /\ OnlyIllShaped(n) =>
              \A k \in ForwardCalls :
                  results[k].status \notin {"ShapeMismatch", "UnevenPartition"}

\* transpile_forward returned a program for a serial program whose reader
\* does not stop the gradient and is annotated with a dims mapping longer than
\* its shape; the reader it created stops the gradient.
C22_Witness ==
    \E k \in OkForwardCalls :
        \E n \in ReaderNames :
            /\ ~serial.vars[n].stop_gradient
            /\ Len(SrcMapping(n)) # Len(SrcShape(n))
            /\ DistName(n) \in DOMAIN results[k].value.main_vars
            /\ results[k].value.main_vars[DistName(n)].kind = "READER"
            /\ results[k].value.main_vars[DistName(n)].persistable
            /\ results[k].value.main_vars[DistName(n)].stop_gradient

\* The running call is an apply_backward of an object on the program that
\* the last transpile_forward of the same object returned.
BackwardOnOwnProgram ==
    /\ call.api = "apply_backward"
    /\ \E k \in OkForwardCalls :
          /\ results[k].inst = call.inst /\ results[k].prog = call.prog
          /\ \A j \in ForwardCalls : results[j].inst = call.inst => j <= k

\* C23: the sessions of two Partitioner objects on one distribution context
\* are independent: the backward dispatch of an object on its own program
\* works with that object's rank id, renaming table and destination programs,
\* whatever the other object did in between.
C23_SessionsIndependent ==
    BackwardOnOwnProgram /\ pc = "backward_op" =>
        /\ helper.rank_id = call.inst
        /\ helper.varname_mapping = call.inst
        /\ helper.dst_main = call.prog
        /\ helper.dst_startup = call.prog

\* A ran transpile_forward, then B did, and A's apply_backward on A's program
\* is at its backward dispatch with the helper still set up for B.
C23_Witness ==
    /\ BackwardOnOwnProgram /\ pc = "backward_op"
    /\ call.op <= Len(progs[call.prog].main_ops)
    /\ CrossReferenced(call.prog, call.op)
    /\ Len(results) = 2
    /\ results[1].api = "transpile_forward" /\ results[1].status = "ok"
    /\ results[2].api = "transpile_forward" /\ results[2].status = "ok"
    /\ results[1].inst = call.inst /\ results[2].inst # call.inst
    /\ helper.rank_id = results[2].inst
    /\ helper.varname_mapping = results[2].inst
    /\ helper.dst_main = results[2].prog

\* C24: apply_optimize of an object with the sharding strategy ends with a
\* fault in its first step: apply_gradients and complete_update_annotation
\* are not invoked for it, no operator is appended to any program, and no
\* operators are returned.
C24_ShardedOptimizeFails ==
    [][/\ \A i \in Instances :
            /\ sharding[i]
            /\ \E params_grads \in ParamsGradsArgs, p \in DistProgramArgs :
                  ApplyOptimize(i, params_grads, p)
            => /\ Outcome \notin {"running", "ok"}
               /\ results'[Len(results')].inst = i
               /\ results'[Len(results')].api = "apply_optimize"
               /\ results'[Len(results')].value = <<>>
               /\ pc' = "idle"
               /\ progs' = progs /\ events' = events /\ store' = store
       /\ \A e \in DOMAIN events' :
            events'[e].kind \in {"apply_gradients", "complete_update_annotation"} =>
                ~sharding[events'[e].inst]
       /\ call'.api = "apply_optimize" => ~sharding[call'.inst]
      ]_vars

\* An object with the sharding strategy was given the pairs and the program
\* of another object's apply_backward, and its apply_optimize ended with a
\* fault, with no optimizer operator in the program.
C24_Witness ==
    /\ Len(results) = 3
    /\ results[2].api = "apply_backward" /\ results[2].status = "ok"
    /\ results[2].value # <<>>
    /\ results[3].api = "apply_optimize"
    /\ sharding[results[3].inst]
    /\ results[3].status = "NameError"
    /\ results[3].prog = results[2].prog
    /\ \A j \in DOMAIN progs[results[3].prog].main_ops :
          progs[results[3].prog].main_ops[j].role # "Optimize"
    /\ EventsOf(3) = {}

====
